---- MODULE Spec2Model ----
(***************************************************************************)
(* Model of xml-schema/src/primitives.rs: the Element-Space parsers        *)
(* (AnyURIElement, Any) over the transactional token cursor, and the       *)
(* Value-Space parsers (Token, QName, AnyUri, Integer, NonNegativeInteger, *)
(* PositiveInteger, Decimal, XmlString, AnySimpleType, NcName, Boolean)    *)
(* over string slices.                                                     *)
(*                                                                         *)
(* A string slice is a sequence of one-character strings.  Option<T> is a  *)
(* sequence of length 0 (None) or 1 (Some).  A parse result is a record    *)
(* [kind, val, rest] (Value-Space) or [kind, val, pos] (Element-Space)     *)
(* with kind "some", "none" or "panic" (panic!/assert_eq!/unwrap abort).   *)
(***************************************************************************)
EXTENDS Integers, Sequences, FiniteSets, TLC

VARIABLES stream, pos, args, call

vars == <<stream, pos, args, call>>

----------------------------------------------------------------------------
(* Bounds of the model *)

\* longest token stream enumerated exhaustively
MaxStreamLen == 3

\* longest input string enumerated exhaustively
MaxStrLen == 3

\* longest tail after a (partial) boolean literal
MaxTailLen == 1

----------------------------------------------------------------------------
(* Option and sequences *)

None == <<>>

Some(v) == <<v>>

IsSome(o) == Len(o) = 1

Unwrap(o) == o[1]

\* all sequences over S of length 0..n
SeqsUpTo(S, n) == UNION { [1..k -> S] : k \in 0..n }

\* &input[from..to] with 0-based, end-exclusive byte offsets
Slice(input, from, to) == SubSeq(input, from + 1, to)

\* &input[from..]
SliceFrom(input, from) == SubSeq(input, from + 1, Len(input))

----------------------------------------------------------------------------
(* xmlparser tokens, as far as primitives.rs matches on them *)

Tok(t, end, prefix, local) == [t |-> t, end |-> end, prefix |-> prefix, local |-> local]

ElementStart(prefix, local) == Tok("ElementStart", "", prefix, local)

ElementEndOpen == Tok("ElementEnd", "Open", "", "")

ElementEndClose(prefix, local) == Tok("ElementEnd", "Close", prefix, local)

ElementEndEmpty == Tok("ElementEnd", "Empty", "", "")

Text == Tok("Text", "", "", "")

Comment == Tok("Comment", "", "", "")

Whitespaces == Tok("Whitespaces", "", "", "")

\* stands for every token kind the parsers match with `_` in both phases
Attribute == Tok("Attribute", "", "", "")

----------------------------------------------------------------------------
(* QName of a tag *)

QNameOf(namespace, local_name) == [namespace |-> namespace, local_name |-> local_name]

\* mutant: the prefix is dropped, tags are compared by local name only
QName_from_strspans_NoPrefix(prefix, local) == QNameOf(None, local)

QName_from_strspans(prefix, local) ==
    IF prefix = "" THEN QNameOf(None, local) ELSE QNameOf(Some(prefix), local)

----------------------------------------------------------------------------
(* Token cursor (support::Stream): index into the token vector *)

\* stream.next(): the next token and the advanced cursor, or None at the end
StreamNext(s, p) ==
    IF p <= Len(s) THEN [tok |-> Some(s[p]), pos |-> p + 1]
    ELSE [tok |-> None, pos |-> p]

\* stream.transaction(): snapshot of the cursor
Transaction(p) == p

\* tx.rollback(stream): the cursor is put back to the snapshot
Rollback(tx) == tx

XmlRes(kind, val, p) == [kind |-> kind, val |-> val, pos |-> p]

----------------------------------------------------------------------------
(* AnyURIElement::parse_self_xml *)

AnyURIElement_parse(s, p) ==
    LET n == StreamNext(s, p) IN
    IF IsSome(n.tok) /\ Unwrap(n.tok).t = "Text"
    THEN XmlRes("some", Unwrap(n.tok), n.pos)
    ELSE XmlRes("none", None, n.pos)

----------------------------------------------------------------------------
(* Any::parse_self_xml *)

Pop(stack) == SubSeq(stack, 1, Len(stack) - 1)

Top(stack) == stack[Len(stack)]

\* mutant: ElementEnd::Empty leaves the tag stack alone
Any_step_EmptyKeeps(tok, tag_stack) ==
    CASE tok.t = "ElementStart" ->
           [ok |-> TRUE, stack |-> Append(tag_stack, QName_from_strspans(tok.prefix, tok.local))]
      [] tok.t = "ElementEnd" /\ tok.end = "Close" ->
           [ok |-> QName_from_strspans(tok.prefix, tok.local) = Top(tag_stack),
            stack |-> Pop(tag_stack)]
      [] OTHER -> [ok |-> TRUE, stack |-> tag_stack]

\* the match of the second loop on one token: the tag stack after it, and
\* whether the assert_eq! of a Close held
Any_step(tok, tag_stack) ==
    CASE tok.t = "ElementStart" ->
           [ok |-> TRUE, stack |-> Append(tag_stack, QName_from_strspans(tok.prefix, tok.local))]
      [] tok.t = "ElementEnd" /\ tok.end = "Open" ->
           [ok |-> TRUE, stack |-> tag_stack]
      [] tok.t = "ElementEnd" /\ tok.end = "Close" ->
           [ok |-> QName_from_strspans(tok.prefix, tok.local) = Top(tag_stack),
            stack |-> Pop(tag_stack)]
      [] tok.t = "ElementEnd" /\ tok.end = "Empty" ->
           [ok |-> TRUE, stack |-> Pop(tag_stack)]
      [] OTHER -> [ok |-> TRUE, stack |-> tag_stack]

\* the second loop: while tag_stack.len() > 0
RECURSIVE Any_phase2(_, _, _, _)
Any_phase2(s, p, tag_stack, tokens) ==
    IF Len(tag_stack) = 0 THEN XmlRes("some", tokens, p)
    ELSE LET n == StreamNext(s, p) IN
         IF ~IsSome(n.tok) THEN XmlRes("panic", None, n.pos)
         ELSE LET tok == Unwrap(n.tok)
                  st == Any_step(tok, tag_stack)
              IN IF ~st.ok THEN XmlRes("panic", None, n.pos)
                 ELSE Any_phase2(s, n.pos, st.stack, Append(tokens, tok))

\* mutant: the terminating token of the first loop is not rolled back
RECURSIVE Any_phase1_NoRollback(_, _, _)
Any_phase1_NoRollback(s, p, tokens) ==
    LET n == StreamNext(s, p)
    IN IF ~IsSome(n.tok) THEN XmlRes("none", None, n.pos)
       ELSE LET tok == Unwrap(n.tok) IN
            CASE tok.t \in {"Whitespaces", "Comment", "Text"} ->
                   Any_phase1_NoRollback(s, n.pos, Append(tokens, tok))
              [] tok.t = "ElementStart" ->
                   Any_phase2(s, n.pos,
                              <<QName_from_strspans(tok.prefix, tok.local)>>,
                              Append(tokens, tok))
              [] OTHER ->
                   IF Len(tokens) > 0 THEN XmlRes("some", tokens, n.pos)
                   ELSE XmlRes("none", None, n.pos)

\* the first loop
RECURSIVE Any_phase1(_, _, _)
Any_phase1(s, p, tokens) ==
    LET tx == Transaction(p)
        n == StreamNext(s, p)
    IN IF ~IsSome(n.tok) THEN XmlRes("none", None, n.pos)
       ELSE LET tok == Unwrap(n.tok) IN
            CASE tok.t \in {"Whitespaces", "Comment", "Text"} ->
                   Any_phase1(s, n.pos, Append(tokens, tok))
              [] tok.t = "ElementStart" ->
                   Any_phase2(s, n.pos,
                              <<QName_from_strspans(tok.prefix, tok.local)>>,
                              Append(tokens, tok))
              [] OTHER ->
                   IF Len(tokens) > 0 THEN XmlRes("some", tokens, Rollback(tx))
                   ELSE XmlRes("none", None, Rollback(tx))

Any_parse(s, p) == Any_phase1(s, p, <<>>)

----------------------------------------------------------------------------
(* Token streams the cursor is constructed over *)

\* tag names of the exhaustively enumerated streams: same local name,
\* different prefix
Tokens ==
    { ElementStart("", "foo"), ElementStart("x", "foo"),
      ElementEndClose("", "foo"), ElementEndClose("x", "foo"),
      ElementEndOpen, ElementEndEmpty, Text, Comment, Whitespaces, Attribute }

\* longer streams: nested subtrees, with and without a matching close
NestedStreams ==
    { <<ElementStart("", "foo"), Text, ElementStart("", "bar"), ElementEndEmpty,
        ElementEndClose("", "foo")>>,
      <<ElementStart("", "foo"), Text, ElementStart("", "bar"), ElementEndEmpty,
        ElementEndClose("", "foo"), Text>>,
      <<ElementStart("", "foo"), Text, ElementStart("", "bar"), ElementEndEmpty,
        ElementEndClose("", "bar")>>,
      <<Whitespaces, ElementStart("", "foo"), ElementEndOpen,
        ElementStart("x", "foo"), Attribute, ElementEndOpen,
        ElementStart("", "bar"), ElementEndEmpty, Comment,
        ElementEndClose("x", "foo"), ElementEndClose("", "foo"), ElementEndEmpty>>,
      <<ElementStart("", "foo"), ElementEndOpen,
        ElementStart("", "bar"), ElementEndOpen,
        ElementEndClose("", "foo"), ElementEndClose("", "bar")>>,
      <<ElementStart("x", "foo"), ElementEndOpen,
        ElementStart("x", "bar"), ElementEndOpen, Text,
        ElementEndClose("x", "bar"), ElementEndClose("", "foo")>> }

Streams == SeqsUpTo(Tokens, MaxStreamLen) \cup NestedStreams

----------------------------------------------------------------------------
(* Facets (support::Facets): every field an Option *)

NoFacets ==
    [enumeration |-> None, length |-> None, min_length |-> None,
     max_length |-> None, min_exclusive |-> None, min_inclusive |-> None,
     max_exclusive |-> None, max_inclusive |-> None]

\* validate_str!: TRUE when no panic! is reached
validate_str(s, facets) ==
    /\ IsSome(facets.enumeration) => s \in Unwrap(facets.enumeration)
    /\ IsSome(facets.length) => Len(s) = Unwrap(facets.length)
    /\ IsSome(facets.min_length) => ~(Len(s) < Unwrap(facets.min_length))
    /\ IsSome(facets.max_length) => ~(Len(s) > Unwrap(facets.max_length))

StrRes(kind, val, rest) == [kind |-> kind, val |-> val, rest |-> rest]

NoMatch == StrRes("none", None, None)

Panic == StrRes("panic", None, None)

\* return_split! with validate_str!
return_split(input, position, facets) ==
    LET parsed == Slice(input, 0, position) IN
    IF validate_str(parsed, facets)
    THEN StrRes("some", parsed, SliceFrom(input, position))
    ELSE Panic

----------------------------------------------------------------------------
(* Characters *)

SP == " "

TAB == "\t"

LF == "\n"

CR == "\r"

COLON == ":"

DigitChars == <<"0", "1", "2", "3", "4", "5", "6", "7", "8", "9">>

IsDigit(c) == \E i \in 1..10 : DigitChars[i] = c

\* (c as i64) - ('0' as i64)
DigitVal(c) == (CHOOSE i \in 1..10 : DigitChars[i] = c) - 1

\* xml_utils::is_xml_char, as far as the specification tells: XmlString is
\* split at a literal space
is_xml_char(c) == c # SP

\* xml_utils::is_name_start_char on the characters of the model
is_name_start_char(c) == c \in {"a", "b", "f", "o", "s", "x", "_", COLON}

\* xml_utils::is_name_char on the characters of the model
is_name_char(c) == is_name_start_char(c) \/ IsDigit(c) \/ c \in {"-", "."}

----------------------------------------------------------------------------
(* Token::parse_self_xml_str *)

\* mutant: every interior space ends the token, without looking ahead
RECURSIVE Token_loop_NoPeek(_, _, _)
Token_loop_NoPeek(input, i, facets) ==
    IF i >= Len(input)
    THEN (IF validate_str(input, facets) THEN StrRes("some", input, <<>>) ELSE Panic)
    ELSE LET c == input[i + 1] IN
         IF i = 0 /\ c = SP THEN NoMatch
         ELSE IF c \in {SP, CR, LF, TAB} THEN return_split(input, i, facets)
         ELSE Token_loop_NoPeek(input, i + 1, facets)

\* while let Some((i, c)) = iter.next()
RECURSIVE Token_loop(_, _, _)
Token_loop(input, i, facets) ==
    IF i >= Len(input)
    THEN (IF validate_str(input, facets) THEN StrRes("some", input, <<>>) ELSE Panic)
    ELSE LET c == input[i + 1]
             peek == IF i + 1 < Len(input) THEN Some(input[i + 2]) ELSE None
         IN IF i = 0 /\ c = SP THEN NoMatch
            ELSE IF c = SP
                 THEN IF ~IsSome(peek) THEN return_split(input, i, facets)
                      ELSE IF Unwrap(peek) \in {SP, CR, LF, TAB}
                           THEN return_split(input, i, facets)
                           ELSE Token_loop(input, i + 1, facets)
            ELSE IF c \in {CR, LF, TAB} THEN return_split(input, i, facets)
            ELSE Token_loop(input, i + 1, facets)

Token_parse(input, facets) ==
    IF Len(input) = 0 THEN NoMatch ELSE Token_loop(input, 0, facets)

----------------------------------------------------------------------------
(* QName::parse_self_xml_str *)

\* parent_context.namespaces.get(prefix).cloned()
NsGet(namespaces, prefix) ==
    IF prefix \in DOMAIN namespaces THEN Some(namespaces[prefix]) ELSE None

\* the closure f
QName_f(namespaces, prefix, local) == QNameOf(NsGet(namespaces, prefix), local)

\* for (i, c) in input.char_indices(), with i1 the index of the last colon
RECURSIVE QName_loop(_, _, _, _)
QName_loop(input, i, i1, namespaces) ==
    IF i >= Len(input)
    THEN IF i1 > 0
         THEN StrRes("some",
                     QName_f(namespaces, Slice(input, 0, i1), SliceFrom(input, i1 + 1)),
                     <<>>)
         ELSE StrRes("some", QName_f(namespaces, <<>>, input), <<>>)
    ELSE LET c == input[i + 1] IN
         IF c = COLON THEN QName_loop(input, i + 1, i, namespaces)
         ELSE IF c = SP
              THEN IF i = 0 \/ i <= i1 + 1 THEN NoMatch
                   ELSE IF i1 > 0
                        THEN StrRes("some",
                                    QName_f(namespaces, Slice(input, 0, i1 + 1),
                                            Slice(input, i1 + 1, i + 1)),
                                    SliceFrom(input, i))
                        ELSE StrRes("some",
                                    QName_f(namespaces, <<>>, Slice(input, 0, i + 1)),
                                    SliceFrom(input, i))
         ELSE QName_loop(input, i + 1, i1, namespaces)

QName_parse(input, namespaces) ==
    IF Len(input) = 0 THEN NoMatch ELSE QName_loop(input, 0, 0, namespaces)

----------------------------------------------------------------------------
(* AnyUri::parse_self_xml_str *)

RECURSIVE AnyUri_loop(_, _)
AnyUri_loop(input, i) ==
    IF i >= Len(input) THEN StrRes("some", input, <<>>)
    ELSE IF input[i + 1] = SP
         THEN IF i = 0 THEN NoMatch
              ELSE StrRes("some", Slice(input, 0, i), SliceFrom(input, i))
    ELSE AnyUri_loop(input, i + 1)

\* mutant: the test for an empty input is missing
AnyUri_parse_NoEmptyTest(input, facets) == AnyUri_loop(input, 0)

AnyUri_parse(input, facets) ==
    IF Len(input) = 0 THEN NoMatch ELSE AnyUri_loop(input, 0)

----------------------------------------------------------------------------
(* XmlString::parse_self_xml_str *)

RECURSIVE XmlString_loop(_, _, _)
XmlString_loop(input, i, facets) ==
    IF i >= Len(input) THEN StrRes("some", input, <<>>)
    ELSE IF ~is_xml_char(input[i + 1]) THEN return_split(input, i, facets)
    ELSE XmlString_loop(input, i + 1, facets)

XmlString_parse(input, facets) == XmlString_loop(input, 0, facets)

----------------------------------------------------------------------------
(* AnySimpleType::parse_self_xml_str *)

AnySimpleType_parse(input, facets) == StrRes("some", input, <<>>)

----------------------------------------------------------------------------
(* NcName::parse_self_xml_str *)

RECURSIVE NcName_loop(_, _, _)
NcName_loop(input, i, facets) ==
    IF i >= Len(input) THEN StrRes("some", input, <<>>)
    ELSE LET c == input[i + 1] IN
         IF c = COLON \/ ~is_name_char(c) THEN return_split(input, i, facets)
         ELSE NcName_loop(input, i + 1, facets)

NcName_parse(input, facets) ==
    IF Len(input) = 0 THEN NoMatch
    ELSE LET c == input[1] IN
         IF c = COLON \/ ~is_name_start_char(c) THEN NoMatch
         ELSE NcName_loop(input, 1, facets)

----------------------------------------------------------------------------
(* Boolean::parse_self_xml_str *)

StrTrue == <<"t", "r", "u", "e">>

StrFalse == <<"f", "a", "l", "s", "e">>

Boolean_parse(input, facets) ==
    IF Len(input) >= 1 /\ Slice(input, 0, 1) = <<"0">>
    THEN StrRes("some", FALSE, SliceFrom(input, 1))
    ELSE IF Len(input) >= 1 /\ Slice(input, 0, 1) = <<"1">>
    THEN StrRes("some", TRUE, SliceFrom(input, 1))
    ELSE IF Len(input) >= 4 /\ Slice(input, 0, 4) = StrTrue
    THEN StrRes("some", TRUE, SliceFrom(input, 4))
    ELSE IF Len(input) >= 5 /\ Slice(input, 0, 4) = StrFalse
    THEN StrRes("some", FALSE, SliceFrom(input, 5))
    ELSE NoMatch

----------------------------------------------------------------------------
(* Machine integers: an i64/u64 is its 64 bits, held as little-endian      *)
(* limbs of 16 bits; arithmetic is modulo 2^64 with the overflow reported  *)

I64Bits == 64

LimbBase == 2 ^ 16

NLimbs == I64Bits \div 16

\* the i64 of a digit
I64OfDigit(d) == [i \in 1..NLimbs |-> IF i = 1 THEN d ELSE 0]

\* limbs i.. of n * m + carry, followed by the carry out of the top limb
RECURSIVE MulAddFrom(_, _, _, _)
MulAddFrom(n, i, m, carry) ==
    IF i > NLimbs THEN <<carry>>
    ELSE LET v == n[i] * m + carry
         IN <<v % LimbBase>> \o MulAddFrom(n, i + 1, m, v \div LimbBase)

\* sign bit of an i64
IsNegI64(n) == n[NLimbs] >= LimbBase \div 2

\* n * 10 + d on i64 for n >= 0: the wrapped result, and whether the
\* mathematical result exceeds i64::MAX
MulTenAdd(n, d) ==
    LET r == MulAddFrom(n, 1, 10, d)
        v == SubSeq(r, 1, NLimbs)
    IN [val |-> v, overflow |-> r[NLimbs + 1] # 0 \/ IsNegI64(v)]

\* -1 * n modulo 2^64
WrappingNeg(n) ==
    SubSeq(MulAddFrom([i \in 1..NLimbs |-> LimbBase - 1 - n[i]], 1, 1, 1), 1, NLimbs)

IsZeroLimbs(u) == \A i \in 1..NLimbs : u[i] = 0

\* quotient and remainder of the unsigned u by ten, from limb i downwards
RECURSIVE DivTenFrom(_, _, _)
DivTenFrom(u, i, rem) ==
    IF i = 0 THEN [q |-> <<>>, r |-> rem]
    ELSE LET cur == rem * LimbBase + u[i]
             rest == DivTenFrom(u, i - 1, cur % 10)
         IN [q |-> Append(rest.q, cur \div 10), r |-> rest.r]

\* decimal digits of the unsigned u, most significant first (empty for 0)
RECURSIVE ToDigits(_)
ToDigits(u) ==
    IF IsZeroLimbs(u) THEN <<>>
    ELSE LET dm == DivTenFrom(u, NLimbs, 0)
         IN Append(ToDigits(dm.q), DigitChars[dm.r + 1])

Numeral(neg, digits) ==
    [neg |-> neg, digits |-> IF digits = <<>> THEN <<"0">> ELSE digits]

\* the number an i64 denotes, as sign and decimal digits
I64Value(n) ==
    IF IsNegI64(n) THEN Numeral(TRUE, ToDigits(WrappingNeg(n)))
    ELSE Numeral(FALSE, ToDigits(n))

\* the number the same bits denote as u64 (`n.0 as u64`)
U64Value(n) == Numeral(FALSE, ToDigits(n))

----------------------------------------------------------------------------
(* Decimal numbers (BigDecimal, BigFloatNotNaN): sign, digits of the       *)
(* unscaled integer, scale.  Facet bounds are small integers.              *)

BigDec(neg, digits, scale) == [neg |-> neg, digits |-> digits, scale |-> scale]

\* BigDecimal::from(i64)
BigDecOfI64(n) == LET v == I64Value(n) IN BigDec(v.neg, v.digits, 0)

RECURSIVE ToInt(_)
ToInt(digits) ==
    IF digits = <<>> THEN 0
    ELSE ToInt(SubSeq(digits, 1, Len(digits) - 1)) * 10 + DigitVal(digits[Len(digits)])

\* sign of n - m for a decimal n and an integer bound m
CmpBound(n, m) ==
    IF Len(n.digits) - n.scale > 9
    THEN (IF n.neg THEN -1 ELSE 1)
    ELSE LET a == IF n.neg THEN 0 - ToInt(n.digits) ELSE ToInt(n.digits)
             b == m * (10 ^ n.scale)
         IN IF a < b THEN -1 ELSE IF a > b THEN 1 ELSE 0

\* validate_decimal!: TRUE when no panic! is reached
validate_decimal(n, facets) ==
    /\ IsSome(facets.min_exclusive) => ~(CmpBound(n, Unwrap(facets.min_exclusive)) <= 0)
    /\ IsSome(facets.min_inclusive) => ~(CmpBound(n, Unwrap(facets.min_inclusive)) < 0)
    /\ IsSome(facets.max_exclusive) => ~(CmpBound(n, Unwrap(facets.max_exclusive)) >= 0)
    /\ IsSome(facets.max_inclusive) => ~(CmpBound(n, Unwrap(facets.max_inclusive)) > 0)

\* validate_int!
validate_int(n, facets) == validate_decimal(BigDecOfI64(n), facets)

----------------------------------------------------------------------------
(* Integer::parse_self_xml_str.  `wraps` tells what the build does on i64  *)
(* overflow: TRUE wraps (overflow checks off), FALSE panics (checks on).   *)

\* let res = multiplier * n; validate_int!(res, facets); Some((rest, Integer(res)))
Integer_finish(input, i, n, multiplier, facets) ==
    LET res == IF multiplier = 1 THEN n ELSE WrappingNeg(n) IN
    IF validate_int(res, facets) THEN StrRes("some", res, SliceFrom(input, i))
    ELSE Panic

\* for (i, c) in iter
RECURSIVE Integer_loop(_, _, _, _, _, _)
Integer_loop(input, i, n, multiplier, facets, wraps) ==
    IF i >= Len(input) THEN Integer_finish(input, Len(input), n, multiplier, facets)
    ELSE LET c == input[i + 1] IN
         IF IsDigit(c)
         THEN LET r == MulTenAdd(n, DigitVal(c)) IN
              IF r.overflow /\ ~wraps THEN Panic
              ELSE Integer_loop(input, i + 1, r.val, multiplier, facets, wraps)
         ELSE Integer_finish(input, i, n, multiplier, facets)

Integer_parse(input, facets, wraps) ==
    IF Len(input) = 0 THEN NoMatch
    ELSE LET c == input[1] IN
         IF c = "+" \/ c = "-"
         THEN IF Len(input) < 2 THEN NoMatch
              ELSE IF IsDigit(input[2])
                   THEN Integer_loop(input, 2, I64OfDigit(DigitVal(input[2])),
                                     IF c = "-" THEN -1 ELSE 1, facets, wraps)
                   ELSE NoMatch
         ELSE IF IsDigit(c)
              THEN Integer_loop(input, 1, I64OfDigit(DigitVal(c)), 1, facets, wraps)
              ELSE NoMatch

----------------------------------------------------------------------------
(* NonNegativeInteger, PositiveInteger *)

Max(a, b) == IF a >= b THEN a ELSE b

\* facets.min_inclusive.clone().unwrap_or(BigFloatNotNaN::zero())
UnwrapOrZero(o) == IF IsSome(o) THEN Unwrap(o) ELSE 0

NonNegativeInteger_parse(input, facets, wraps) ==
    LET min == Max(0, UnwrapOrZero(facets.min_inclusive))
        narrowed == [facets EXCEPT !.min_inclusive = Some(min)]
    IN Integer_parse(input, narrowed, wraps)

PositiveInteger_parse(input, facets, wraps) ==
    LET min == Max(1, UnwrapOrZero(facets.min_inclusive))
        narrowed == [facets EXCEPT !.min_inclusive = Some(min)]
    IN NonNegativeInteger_parse(input, narrowed, wraps)

----------------------------------------------------------------------------
(* Decimal::parse_self_xml_str *)

RECURSIVE StripZeros(_)
StripZeros(ds) ==
    IF Len(ds) > 1 /\ ds[1] = "0" THEN StripZeros(Tail(ds)) ELSE ds

\* BigInt::from_str_radix(s, 10): optional sign, then one or more digits
BigIntFromStr(s) ==
    LET signed == Len(s) > 0 /\ s[1] \in {"+", "-"}
        ds == IF signed THEN Tail(s) ELSE s
    IN IF Len(ds) = 0 \/ \E k \in 1..Len(ds) : ~IsDigit(ds[k]) THEN None
       ELSE LET mag == StripZeros(ds)
            IN Some([neg |-> signed /\ s[1] = "-" /\ mag # <<"0">>, digits |-> mag])

\* BigDecimal::from_str on a string without exponent: the digits around the
\* first '.' are joined and parsed as an integer, the scale is the number
\* of characters after the '.'
BigDecimalFromStr(s) ==
    IF Len(s) = 0 THEN None
    ELSE LET dots == { k \in 1..Len(s) : s[k] = "." }
             loc == IF dots = {} THEN 0 ELSE CHOOSE k \in dots : \A j \in dots : k <= j
             digits == IF loc = 0 THEN s
                       ELSE SubSeq(s, 1, loc - 1) \o SubSeq(s, loc + 1, Len(s))
             scale == IF loc = 0 THEN 0 ELSE Len(s) - loc
             big == BigIntFromStr(digits)
         IN IF IsSome(big)
            THEN Some(BigDec(Unwrap(big).neg, Unwrap(big).digits, scale))
            ELSE None

\* parse and validate input[0..i], return it with input[i..]
Decimal_finish(input, i, facets) ==
    LET res == BigDecimalFromStr(Slice(input, 0, i)) IN
    IF ~IsSome(res) THEN NoMatch
    ELSE IF validate_decimal(Unwrap(res), facets)
         THEN StrRes("some", Unwrap(res), SliceFrom(input, i))
         ELSE Panic

RECURSIVE Decimal_loop(_, _, _)
Decimal_loop(input, i, facets) ==
    IF i >= Len(input) THEN Decimal_finish(input, Len(input), facets)
    ELSE IF input[i + 1] = SP THEN Decimal_finish(input, i, facets)
    ELSE Decimal_loop(input, i + 1, facets)

Decimal_parse(input, facets) == Decimal_loop(input, 0, facets)

----------------------------------------------------------------------------
(* The last parse call *)

Idle == [op |-> "init", arg |-> None, res |-> [kind |-> "init"]]

\* no string arguments: the Element-Space parsers read the cursor only
NoArgs == [input |-> <<>>, facets |-> NoFacets, namespaces |-> <<>>, wraps |-> TRUE]

Aborted == call.res.kind = "panic"

----------------------------------------------------------------------------
(* Arguments of the Value-Space parsers: input, facets, namespace scope,   *)
(* and what the build does on i64 overflow                                 *)

StrAlphabet == {"a", "1", COLON, SP, TAB, LF, CR}

NumAlphabet == {"+", "-", "0", "5", ".", SP}

\* the examples of the specification, and names with a two-letter prefix
StrExamples ==
    { <<"a", SP, SP, "b">>, <<"a", SP, "b">>, <<"f", "o", "o">>,
      <<"x", "s", COLON, "f", "o", "o">>,
      <<"x", "s", COLON, "f", "o", "o", SP, "b", "a", "r">>,
      <<"x", "s", COLON>>, <<"a", COLON, "x", "s", COLON, "b", SP>> }

StrInputs == SeqsUpTo(StrAlphabet, MaxStrLen) \cup StrExamples

I64MaxDigits ==
    <<"9", "2", "2", "3", "3", "7", "2", "0", "3", "6",
      "8", "5", "4", "7", "7", "5", "8", "0", "7">>

\* i64::MAX + 1
I64MaxPlusOneDigits == SubSeq(I64MaxDigits, 1, 18) \o <<"8">>

\* 2^64 + 5
TwoTo64PlusFiveDigits ==
    <<"1", "8", "4", "4", "6", "7", "4", "4", "0", "7",
      "3", "7", "0", "9", "5", "5", "1", "6", "2", "1">>

\* digit runs at and beyond the width of i64, signed and followed by text
LongNumInputs ==
    { sign \o run \o tail :
        sign \in {<<>>, <<"+">>, <<"-">>},
        run \in {I64MaxDigits, I64MaxPlusOneDigits, TwoTo64PlusFiveDigits},
        tail \in {<<>>, <<SP, "5">>} }

NumInputs == SeqsUpTo(NumAlphabet, MaxStrLen) \cup LongNumInputs

BoolWords ==
    { SubSeq(StrTrue, 1, k) : k \in 0..4 } \cup { SubSeq(StrFalse, 1, k) : k \in 0..5 }
      \cup { <<"0">>, <<"1">>, <<"f", "a", "l", "s", "x">>, <<"t", "r", "u", "x">> }

BoolInputs == { w \o tail : w \in BoolWords, tail \in SeqsUpTo({"1", "e", SP}, MaxTailLen) }

StrFacetSets ==
    { NoFacets,
      [NoFacets EXCEPT !.enumeration = Some({<<"a">>, <<"a", SP, "1">>})],
      [NoFacets EXCEPT !.length = Some(1)],
      [NoFacets EXCEPT !.min_length = Some(2)],
      [NoFacets EXCEPT !.max_length = Some(1)],
      [NoFacets EXCEPT !.min_length = Some(1), !.max_length = Some(2)] }

NumFacetSets ==
    { NoFacets,
      [NoFacets EXCEPT !.min_inclusive = Some(-3)],
      [NoFacets EXCEPT !.min_inclusive = Some(5)],
      [NoFacets EXCEPT !.max_inclusive = Some(5)],
      [NoFacets EXCEPT !.min_exclusive = Some(0)],
      [NoFacets EXCEPT !.max_exclusive = Some(5)] }

NsXsU == "http://example/xs"

NoScope == <<>>

\* prefix xs and prefix a are bound
XsScope == [p \in {<<"x", "s">>, <<"a">>} |-> IF p = <<"a">> THEN "urn:a" ELSE NsXsU]

Args(input, facets, namespaces, wraps) ==
    [input |-> input, facets |-> facets, namespaces |-> namespaces, wraps |-> wraps]

Cases ==
    { Args(i, f, NoScope, TRUE) : i \in StrInputs, f \in StrFacetSets }
      \cup { Args(i, NoFacets, XsScope, TRUE) : i \in StrInputs }
      \cup { Args(i, f, NoScope, w) : i \in NumInputs, f \in NumFacetSets, w \in BOOLEAN }
      \cup { Args(i, NoFacets, NoScope, TRUE) : i \in BoolInputs }

----------------------------------------------------------------------------
(* The state machine of the Value-Space parsers: one call of one parser on *)
(* the arguments at hand; no call changes its arguments                    *)

InitStr ==
    /\ stream = <<>>
    /\ pos = 1
    /\ args \in Cases
    /\ call = Idle

\* the record of a call: the parser, its arguments, what it returned
Called(op, res) == [op |-> op, arg |-> args, res |-> res]

TokenParse ==
    /\ call = Idle
    /\ call' = Called("Token", Token_parse(args.input, args.facets))
    /\ UNCHANGED <<stream, pos, args>>

QNameParse ==
    /\ call = Idle
    /\ call' = Called("QName", QName_parse(args.input, args.namespaces))
    /\ UNCHANGED <<stream, pos, args>>

AnyUriParse ==
    /\ call = Idle
    /\ call' = Called("AnyUri", AnyUri_parse(args.input, args.facets))
    /\ UNCHANGED <<stream, pos, args>>

IntegerParse ==
    /\ call = Idle
    /\ call' = Called("Integer", Integer_parse(args.input, args.facets, args.wraps))
    /\ UNCHANGED <<stream, pos, args>>

NonNegativeIntegerParse ==
    /\ call = Idle
    /\ call' = Called("NonNegativeInteger", NonNegativeInteger_parse(args.input, args.facets, args.wraps))
    /\ UNCHANGED <<stream, pos, args>>

PositiveIntegerParse ==
    /\ call = Idle
    /\ call' = Called("PositiveInteger", PositiveInteger_parse(args.input, args.facets, args.wraps))
    /\ UNCHANGED <<stream, pos, args>>

DecimalParse ==
    /\ call = Idle
    /\ call' = Called("Decimal", Decimal_parse(args.input, args.facets))
    /\ UNCHANGED <<stream, pos, args>>

XmlStringParse ==
    /\ call = Idle
    /\ call' = Called("XmlString", XmlString_parse(args.input, args.facets))
    /\ UNCHANGED <<stream, pos, args>>

AnySimpleTypeParse ==
    /\ call = Idle
    /\ call' = Called("AnySimpleType", AnySimpleType_parse(args.input, args.facets))
    /\ UNCHANGED <<stream, pos, args>>

NcNameParse ==
    /\ call = Idle
    /\ call' = Called("NcName", NcName_parse(args.input, args.facets))
    /\ UNCHANGED <<stream, pos, args>>

BooleanParse ==
    /\ call = Idle
    /\ call' = Called("Boolean", Boolean_parse(args.input, args.facets))
    /\ UNCHANGED <<stream, pos, args>>

NextStr ==
    \/ TokenParse
    \/ QNameParse
    \/ AnyUriParse
    \/ IntegerParse
    \/ NonNegativeIntegerParse
    \/ PositiveIntegerParse
    \/ DecimalParse
    \/ XmlStringParse
    \/ AnySimpleTypeParse
    \/ NcNameParse
    \/ BooleanParse

SpecStr == InitStr /\ [][NextStr]_vars

----------------------------------------------------------------------------
(* The state machine of the Element-Space parsers *)

\* InnerStream::new: the cursor is at the first token
InitXml ==
    /\ stream \in Streams
    /\ pos = 1
    /\ args = NoArgs
    /\ call = Idle

\* the driver pulls one token itself
Advance ==
    /\ ~Aborted
    /\ pos <= Len(stream)
    /\ pos' = StreamNext(stream, pos).pos
    /\ call' = [op |-> "next", arg |-> [entry |-> pos], res |-> [kind |-> "tok"]]
    /\ UNCHANGED <<stream, args>>

AnyURIElementParse ==
    /\ ~Aborted
    /\ LET r == AnyURIElement_parse(stream, pos) IN
       /\ pos' = r.pos
       /\ call' = [op |-> "AnyURIElement", arg |-> [entry |-> pos],
                   res |-> [kind |-> r.kind, val |-> r.val]]
    /\ UNCHANGED <<stream, args>>

AnyParse ==
    /\ ~Aborted
    /\ LET r == Any_parse(stream, pos) IN
       /\ pos' = r.pos
       /\ call' = [op |-> "Any", arg |-> [entry |-> pos],
                   res |-> [kind |-> r.kind, val |-> r.val]]
    /\ UNCHANGED <<stream, args>>

NextXml == Advance \/ AnyURIElementParse \/ AnyParse

SpecXml == InitXml /\ [][NextXml]_vars

----------------------------------------------------------------------------
(* Reference notions for the Element-Space claims, defined on the token    *)
(* stream alone                                                            *)

LeadingKinds == {"Whitespaces", "Comment", "Text"}

\* first position at or after e whose token is not Whitespace/Comment/Text
\* (Len(stream)+1 when there is none)
FirstOther(e) ==
    LET cand == { i \in e..Len(stream) : stream[i].t \notin LeadingKinds }
    IN IF cand = {} THEN Len(stream) + 1
       ELSE CHOOSE i \in cand : \A k \in cand : i <= k

IsStart(i) == i \in 1..Len(stream) /\ stream[i].t = "ElementStart"

IsClose(i) == i \in 1..Len(stream) /\ stream[i].t = "ElementEnd" /\ stream[i].end = "Close"

IsEmpty(i) == i \in 1..Len(stream) /\ stream[i].t = "ElementEnd" /\ stream[i].end = "Empty"

\* the tag a start or close token names: prefix and local name
TagName(i) == <<stream[i].prefix, stream[i].local>>

\* opened minus closed elements among the tokens a..b
Depth(a, b) ==
    Cardinality({ i \in a..b : IsStart(i) })
      - Cardinality({ i \in a..b : IsClose(i) \/ IsEmpty(i) })

\* the subtree opened at s is still open after each of the tokens s..j-1
OpenUntil(s, j) == \A k \in s..(j - 1) : Depth(s, k) >= 1

\* the most recently opened, still unclosed element before position j
Partner(j) ==
    LET cand == { i \in 1..(j - 1) : IsStart(i) /\ OpenUntil(i, j) }
    IN CHOOSE i \in cand : \A k \in cand : k <= i

\* closes inside the subtree opened at s that name another element than the
\* one they close
BadCloses(s) ==
    { j \in (s + 1)..Len(stream) :
        IsClose(j) /\ OpenUntil(s, j) /\ TagName(j) # TagName(Partner(j)) }

\* Recursive-descent recogniser of a well-formed element:
\*   Elem ::= ElementStart(n) Item* (ElementEnd(Empty) | ElementEnd(Close n))
\*   Item ::= Elem | any token that is neither a start, a close nor an empty end
\* ElemEnd(i) is the position of the last token of the element starting at i,
\* or 0 when no well-formed element starts there.
RECURSIVE ElemEnd(_), ItemsEnd(_, _)
ElemEnd(i) == IF IsStart(i) THEN ItemsEnd(i + 1, TagName(i)) ELSE 0

ItemsEnd(j, name) ==
    IF j > Len(stream) THEN 0
    ELSE IF IsEmpty(j) THEN j
    ELSE IF IsClose(j) THEN (IF TagName(j) = name THEN j ELSE 0)
    ELSE IF IsStart(j)
         THEN LET k == ElemEnd(j) IN IF k = 0 THEN 0 ELSE ItemsEnd(k + 1, name)
    ELSE ItemsEnd(j + 1, name)

IsAnyCall == call.op = "Any"

Entry == call.arg.entry

----------------------------------------------------------------------------
(* C1: whenever AnyURIElement::parse_self_xml or Any::parse_self_xml        *)
(* returns None, the cursor is where it was on entry.                      *)
C1_NoMatchPurity ==
    (call.op \in {"AnyURIElement", "Any"} /\ call.res.kind = "none")
        => pos = Entry

\* C1, the first way the cursor is left advanced on None: AnyURIElement saw
\* a token that is not Text
C1_AnyURIElementAdvancedOnNone ==
    /\ call.op = "AnyURIElement" /\ call.res.kind = "none"
    /\ Entry <= Len(stream) /\ stream[Entry].t # "Text"
    /\ pos = Entry + 1

\* C1, the second way: Any reached the end of the stream after
\* Whitespace/Comment/Text tokens
C1_AnyAdvancedOnNone ==
    /\ IsAnyCall /\ call.res.kind = "none"
    /\ Entry <= Len(stream) /\ FirstOther(Entry) = Len(stream) + 1
    /\ pos = Len(stream) + 1

\* C1 restricted to the branch that rolls back: a token that is neither
\* Whitespace/Comment/Text nor ElementStart, seen first
C1_AnyRollbackBranchPure ==
    (IsAnyCall /\ FirstOther(Entry) = Entry /\ Entry <= Len(stream)
        /\ ~IsStart(Entry))
        => (call.res.kind = "none" /\ pos = Entry)

----------------------------------------------------------------------------
(* C2: wildcard balance.  Called at the ElementStart of a well-formed       *)
(* element, Any::parse_self_xml returns exactly the tokens of that subtree *)
(* and leaves the cursor at the token after its closing tag; leading       *)
(* Whitespace/Comment/Text tokens are returned in front of the subtree.    *)
(* Whenever a value containing an element is returned, the consumed tokens *)
(* end exactly where the count of opened minus closed (Close or Empty)     *)
(* elements first reaches zero.                                            *)
C2_WildcardBalance ==
    IsAnyCall =>
        LET e == Entry
            s == FirstOther(e)
            m == ElemEnd(s)
        IN /\ (IsStart(s) /\ m # 0) =>
                  /\ call.res.kind = "some"
                  /\ call.res.val = SubSeq(stream, e, m)
                  /\ pos = m + 1
           /\ (call.res.kind = "some" /\ IsStart(s)) =>
                  /\ call.res.val = SubSeq(stream, e, pos - 1)
                  /\ Depth(s, pos - 1) = 0
                  /\ OpenUntil(s, pos - 1)

\* C2, reached: the example of the specification (five tokens of one
\* subtree) followed by one more token, which is left in the stream
C2_Witness ==
    /\ IsAnyCall
    /\ Entry = 1
    /\ stream = <<ElementStart("", "foo"), Text, ElementStart("", "bar"),
                  ElementEndEmpty, ElementEndClose("", "foo"), Text>>
    /\ call.res.kind = "some"
    /\ Len(call.res.val) = 5
    /\ pos = 6

----------------------------------------------------------------------------
(* C3: in the second phase of Any::parse_self_xml a Close whose prefix or   *)
(* local name differs from the most recently opened, still unclosed        *)
(* element aborts the parse: the call neither returns a value nor None.    *)
(* The only other abort is the end of the stream inside an open element.   *)
C3_CloseMismatchFatal ==
    IsAnyCall =>
        LET s == FirstOther(Entry)
        IN IsStart(s) =>
              /\ BadCloses(s) # {} => call.res.kind = "panic"
              /\ call.res.kind = "panic" =>
                    \/ BadCloses(s) # {}
                    \/ OpenUntil(s, Len(stream) + 1)

\* C3, reached: a close that differs from its open in the prefix only, and
\* the call aborted
C3_Witness ==
    /\ IsAnyCall
    /\ call.res.kind = "panic"
    /\ \E j \in BadCloses(FirstOther(Entry)) :
          /\ stream[j].local = stream[Partner(j)].local
          /\ stream[j].prefix # stream[Partner(j)].prefix

----------------------------------------------------------------------------
(* C11: consumed equals returned.  On every successful return of            *)
(* Any::parse_self_xml the cursor has advanced from its entry position by  *)
(* exactly the number of returned tokens, and the returned tokens are the  *)
(* tokens of the stream between the entry position and the cursor, in      *)
(* stream order.  When leading Whitespace/Comment/Text tokens are followed *)
(* by a token that is neither of these nor an ElementStart, the leading    *)
(* tokens are returned and the cursor is left at that terminating token.   *)
C11_ConsumedEqualsReturned ==
    IsAnyCall =>
        LET e == Entry
            s == FirstOther(e)
        IN /\ call.res.kind = "some" =>
                  /\ pos - e = Len(call.res.val)
                  /\ Len(call.res.val) > 0
                  /\ \A k \in 1..Len(call.res.val) :
                        call.res.val[k] = stream[e + k - 1]
           /\ (s > e /\ s <= Len(stream) /\ ~IsStart(s)) =>
                  /\ call.res.kind = "some"
                  /\ call.res.val = SubSeq(stream, e, s - 1)
                  /\ pos = s
                  /\ stream[pos] \notin { call.res.val[k] : k \in 1..Len(call.res.val) }

\* C11, reached: called after the driver pulled one token, Any returned the
\* one leading token and left the cursor at the terminating Attribute
C11_Witness ==
    /\ IsAnyCall
    /\ Entry = 2
    /\ Len(stream) = 3
    /\ stream[2] = Comment
    /\ stream[3] = Attribute
    /\ call.res.kind = "some"
    /\ call.res.val = <<Comment>>
    /\ pos = 3

----------------------------------------------------------------------------
(* Reference notions for the Value-Space claims, defined on the input      *)
(* string alone                                                            *)

In == args.input

Res == call.res

ReturnedSome(val, rest) == Res.kind = "some" /\ Res.val = val /\ Res.rest = rest

StartsWith(s, w) == Len(s) >= Len(w) /\ SubSeq(s, 1, Len(w)) = w

\* s from its k-th character on (k counted from 1)
From(s, k) == SubSeq(s, k, Len(s))

\* least and greatest element of a non-empty set of integers
Least(S) == CHOOSE i \in S : \A k \in S : i <= k

Greatest(S) == CHOOSE i \in S : \A k \in S : k <= i

\* a string satisfies the string facets
FacetsAdmitStr(s, f) ==
    /\ f.enumeration # None => s \in f.enumeration[1]
    /\ f.length # None => Len(s) = f.length[1]
    /\ f.min_length # None => Len(s) >= f.min_length[1]
    /\ f.max_length # None => Len(s) <= f.max_length[1]

\* 1 when the input starts with a sign, else 0
SignLen(s) == IF Len(s) > 0 /\ s[1] \in {"+", "-"} THEN 1 ELSE 0

\* position of the last character of the maximal digit run after the sign
RunEnd(s) ==
    Greatest({ k \in SignLen(s)..Len(s) : \A j \in (SignLen(s) + 1)..k : IsDigit(s[j]) })

\* optional sign, then at least one digit
IsLexInt(s) == RunEnd(s) > SignLen(s)

\* the number the signed digit run denotes: sign and digits without
\* leading zeros
MathValue(s) ==
    LET run == StripZeros(SubSeq(s, SignLen(s) + 1, RunEnd(s)))
    IN [neg |-> s[1] = "-" /\ run # <<"0">>, digits |-> run]

\* sign of v - b for a number v and a small integer b
NumCmp(v, b) ==
    IF Len(v.digits) > 9 THEN (IF v.neg THEN -1 ELSE 1)
    ELSE LET a == IF v.neg THEN 0 - ToInt(v.digits) ELSE ToInt(v.digits)
         IN IF a < b THEN -1 ELSE IF a > b THEN 1 ELSE 0

\* a number satisfies the numeric facets other than min_inclusive
FacetsAdmitNumOther(v, f) ==
    /\ f.min_exclusive # None => NumCmp(v, f.min_exclusive[1]) > 0
    /\ f.max_exclusive # None => NumCmp(v, f.max_exclusive[1]) < 0
    /\ f.max_inclusive # None => NumCmp(v, f.max_inclusive[1]) <= 0

FacetsAdmitNum(v, f) ==
    /\ FacetsAdmitNumOther(v, f)
    /\ f.min_inclusive # None => NumCmp(v, f.min_inclusive[1]) >= 0

\* the digit run denotes a number that an i64 holds
FitsI64(s) ==
    LET d == MathValue(s).digits
    IN \/ Len(d) < Len(I64MaxDigits)
       \/ /\ Len(d) = Len(I64MaxDigits)
          /\ \/ d = I64MaxDigits
             \/ \E k \in 1..Len(d) :
                   /\ SubSeq(d, 1, k - 1) = SubSeq(I64MaxDigits, 1, k - 1)
                   /\ DigitVal(d[k]) < DigitVal(I64MaxDigits[k])

----------------------------------------------------------------------------
(* C4: for Token, XmlString, NcName and AnyUri every returned value         *)
(* satisfies the facets (enumeration, length, min_length, max_length); a   *)
(* candidate that violates one is never returned as a value.               *)
C4_FacetGate ==
    (call.op \in {"Token", "XmlString", "NcName", "AnyUri"} /\ Res.kind = "some")
        => FacetsAdmitStr(Res.val, args.facets)

\* C4 restricted to Token, which validates on both of its paths
C4_TokenValidates ==
    (call.op = "Token" /\ Res.kind = "some") => FacetsAdmitStr(Res.val, args.facets)

\* C4 restricted to XmlString and NcName values that end inside the input
C4_SplitPathValidates ==
    (call.op \in {"XmlString", "NcName"} /\ Res.kind = "some" /\ Res.rest # <<>>)
        => FacetsAdmitStr(Res.val, args.facets)

----------------------------------------------------------------------------
(* Facet narrowing of NonNegativeInteger and PositiveInteger *)

\* the intrinsic floor of the type called
Floor == IF call.op = "PositiveInteger" THEN 1 ELSE 0

\* max(floor, caller-supplied min_inclusive or none)
NarrowedMin ==
    IF args.facets.min_inclusive # None /\ args.facets.min_inclusive[1] > Floor
    THEN args.facets.min_inclusive[1] ELSE Floor

\* the narrowed bound decides between the unchanged value and the abort
NarrowingHolds ==
    LET v == MathValue(In) IN
    /\ (NumCmp(v, NarrowedMin) >= 0 /\ FacetsAdmitNumOther(v, args.facets))
          => /\ Res.kind = "some"
             /\ U64Value(Res.val) = v
             /\ Res.rest = From(In, RunEnd(In) + 1)
    /\ NumCmp(v, NarrowedMin) < 0 => Res.kind = "panic"

(* C5: NonNegativeInteger (floor 0) and PositiveInteger (floor 1) check the *)
(* parsed integer against max(floor, caller's min_inclusive): for every    *)
(* signed digit string, a number >= that bound which meets the other       *)
(* facets is returned unchanged as the unsigned value, and a number below  *)
(* the bound is a fatal facet violation.                                   *)
C5_FacetNarrowing ==
    (call.op \in {"NonNegativeInteger", "PositiveInteger"} /\ IsLexInt(In))
        => NarrowingHolds

\* C5 restricted to digit runs that fit an i64: there the narrowing is as
\* claimed
C5_NarrowingWithinI64 ==
    (call.op \in {"NonNegativeInteger", "PositiveInteger"} /\ IsLexInt(In)
        /\ FitsI64(In))
        => NarrowingHolds

----------------------------------------------------------------------------
(* The name of a QName input *)

\* position of the terminating space (one past the end when there is none)
QNameEnd(s) ==
    LET sp == { i \in 1..Len(s) : s[i] = SP }
    IN IF sp = {} THEN Len(s) + 1 ELSE Least(sp)

\* position of the last colon of the name (0 when there is none)
QNameColon(s) ==
    LET cs == { i \in 1..(QNameEnd(s) - 1) : s[i] = COLON }
    IN IF cs = {} THEN 0 ELSE Greatest(cs)

(* C6: QName::parse_self_xml_str splits the name (the text before the       *)
(* first space, or the whole input) at its last colon: the prefix without  *)
(* the colon is resolved through the scope, the local name is the          *)
(* non-empty text after the colon, the remainder starts at the space;      *)
(* empty input and an empty local name are no-match.                       *)
C6_QNameSplit ==
    call.op = "QName" =>
        LET e == QNameEnd(In)
            c == QNameColon(In)
            prefix == SubSeq(In, 1, c - 1)
            local == SubSeq(In, c + 1, e - 1)
        IN IF local = <<>> THEN Res.kind = "none"
           ELSE ReturnedSome(
                    [namespace |-> IF prefix = <<>> THEN None
                                   ELSE IF prefix \in DOMAIN args.namespaces
                                        THEN <<args.namespaces[prefix]>>
                                        ELSE None,
                     local_name |-> local],
                    From(In, e))

\* C6 restricted to a name that runs to the end of the input, with its last
\* colon after the first character and a non-empty local part: there the
\* split is as claimed
C6_EndOfInputPath ==
    (call.op = "QName" /\ QNameEnd(In) = Len(In) + 1 /\ QNameColon(In) > 1
        /\ QNameColon(In) < Len(In))
        => ReturnedSome(
               [namespace |-> IF SubSeq(In, 1, QNameColon(In) - 1) \in DOMAIN args.namespaces
                              THEN <<args.namespaces[SubSeq(In, 1, QNameColon(In) - 1)]>>
                              ELSE None,
                local_name |-> From(In, QNameColon(In) + 1)],
               <<>>)

----------------------------------------------------------------------------
(* Token splitting *)

WhiteChars == {SP, CR, LF, TAB}

\* positions at which a token ends
TokenEnds(s) ==
    { i \in 1..Len(s) :
        \/ s[i] \in {CR, LF, TAB}
        \/ s[i] = SP /\ (i = Len(s) \/ s[i + 1] \in WhiteChars) }

\* the splitting rule, for every input and facet set
TokenSplitRule ==
    call.op = "Token" =>
        IF In = <<>> \/ In[1] = SP THEN Res.kind = "none"
        ELSE LET i == IF TokenEnds(In) = {} THEN Len(In) + 1 ELSE Least(TokenEnds(In))
                 val == SubSeq(In, 1, i - 1)
             IN IF FacetsAdmitStr(val, args.facets)
                THEN ReturnedSome(val, From(In, i))
                ELSE Res.kind = "panic"

IsTokenCallOn(s) == call.op = "Token" /\ In = s /\ args.facets = NoFacets

(* C7: Token::parse_self_xml_str.  Empty input or a leading space is        *)
(* no-match; otherwise the token ends at the first position that holds a   *)
(* carriage-return, newline or tab, or a space followed by a whitespace    *)
(* character or by the end of the input; the value is the input before     *)
(* that position and the remainder the input from that position on (so     *)
(* both spaces of a double space stay in the remainder); with no such      *)
(* position the value is the whole input.  The value is returned if it     *)
(* satisfies the facets and is a fatal violation otherwise.                *)
C7_TokenSplit ==
    /\ TokenSplitRule
    /\ IsTokenCallOn(<<"a", SP, SP, "b">>) => ReturnedSome(<<"a">>, <<SP, SP, "b">>)
    /\ IsTokenCallOn(<<"a", SP, "b">>) => ReturnedSome(<<"a", SP, "b">>, <<>>)

\* C7 as stated: the same rule, but the remainder of "a", two spaces, "b"
\* is one space and "b"
C7_TokenSplitAsClaimed ==
    /\ TokenSplitRule
    /\ IsTokenCallOn(<<"a", SP, SP, "b">>) => ReturnedSome(<<"a">>, <<SP, "b">>)
    /\ IsTokenCallOn(<<"a", SP, "b">>) => ReturnedSome(<<"a", SP, "b">>, <<>>)

\* C7, reached: "a", two spaces, "b" was split before both spaces
C7_Witness ==
    /\ IsTokenCallOn(<<"a", SP, SP, "b">>)
    /\ ReturnedSome(<<"a">>, <<SP, SP, "b">>)

----------------------------------------------------------------------------
(* C8: Boolean::parse_self_xml_str succeeds exactly on the inputs that      *)
(* begin with "0", "1", "true" or "false", yields false, true, true, false *)
(* and removes exactly the literal; every other input is no-match.         *)
C8_BooleanLiterals ==
    call.op = "Boolean" =>
        IF StartsWith(In, <<"0">>) THEN ReturnedSome(FALSE, From(In, 2))
        ELSE IF StartsWith(In, <<"1">>) THEN ReturnedSome(TRUE, From(In, 2))
        ELSE IF StartsWith(In, <<"t", "r", "u", "e">>) THEN ReturnedSome(TRUE, From(In, 5))
        ELSE IF StartsWith(In, <<"f", "a", "l", "s", "e">>)
             THEN ReturnedSome(FALSE, From(In, 6))
        ELSE Res.kind = "none"

\* C8 restricted to inputs that do not begin with "false": "0", "1" and
\* "true" are recognised as claimed
C8_OtherLiterals ==
    (call.op = "Boolean" /\ ~StartsWith(In, <<"f", "a", "l", "s", "e">>))
        => C8_BooleanLiterals

----------------------------------------------------------------------------
(* C9: on the empty input every Value-Space parser except XmlString and     *)
(* AnySimpleType returns no-match, for any facets and scope; XmlString and *)
(* AnySimpleType return the empty string as the value, with an empty       *)
(* remainder.                                                              *)
C9_EmptyInput ==
    (call.op # "init" /\ In = <<>>) =>
        IF call.op \in {"XmlString", "AnySimpleType"}
        THEN ReturnedSome(<<>>, <<>>)
        ELSE Res.kind = "none"

\* C9 as stated: no Value-Space parser returns a value for the empty input
C9_EmptyInputNoMatch ==
    (call.op # "init" /\ In = <<>>) => Res.kind = "none"

\* C9, reached: XmlString was called on the empty input, under a facet set
\* that asks for two characters, and returned the empty string
C9_Witness ==
    /\ call.op = "XmlString"
    /\ In = <<>>
    /\ args.facets.min_length = Some(2)
    /\ ReturnedSome(<<>>, <<>>)

----------------------------------------------------------------------------
(* The value of an Integer input *)

\* the result is the number the signed digit run denotes
IntegerValueHolds ==
    IF ~IsLexInt(In) THEN Res.kind = "none"
    ELSE IF FacetsAdmitNum(MathValue(In), args.facets)
         THEN /\ Res.kind = "some"
              /\ I64Value(Res.val) = MathValue(In)
              /\ Res.rest = From(In, RunEnd(In) + 1)
         ELSE Res.kind = "panic"

(* C10: Integer::parse_self_xml_str on an optional sign followed by one or  *)
(* more digits returns sign times the decimal value of the maximal digit   *)
(* run, whatever its length, with the remainder starting at the first      *)
(* non-digit (a number the facets reject is a fatal violation); any other  *)
(* input is no-match.                                                      *)
C10_IntegerValue == call.op = "Integer" => IntegerValueHolds

\* C10 restricted to digit runs that fit an i64: there the value, the
\* remainder and the no-match cases are as claimed
C10_ValueWithinI64 ==
    (call.op = "Integer" /\ (IsLexInt(In) => FitsI64(In))) => IntegerValueHolds

====
